---------------------------- MODULE Spec2Model ----------------------------
(***************************************************************************)
(* Model of the live price server in                                       *)
(* discord-viewer/databento-live-test/src/main.rs: the HTTP control        *)
(* surface (subscribe, ingest_one, get_prices, get_all_prices), the single *)
(* Databento client manager task and the WebSocket broadcaster task.       *)
(*                                                                         *)
(* Strings are sequences of one-character strings, so that norm_symbol,    *)
(* split(',') and format!("INST:{}") are computed character by character.  *)
(*                                                                         *)
(* Each action is one handler run or one iteration of a task's loop.  A    *)
(* loop iteration awaits only calls on the task's own client or socket and *)
(* touches shared state in one place, so it is one step.  The subscribe    *)
(* handler is one step as well: its filter is exact for a single step      *)
(* because the cache never shrinks and only handlers write                 *)
(* subscribed_symbols, and requests are taken one at a time.  ingest_hist, *)
(* which asks an external HTTP service and then writes the cache as        *)
(* ingest_one does, is not modelled.                                       *)
(***************************************************************************)
EXTENDS Integers, Sequences, FiniteSets, TLC

VARIABLES
    api_key,                \* whether DATABENTO_API_KEY is set in the environment
    prices,                 \* AppState.prices: key -> LastPrice
    subscribed_symbols,     \* AppState.subscribed_symbols
    symbol_mapping,         \* AppState.symbol_mapping: instrument_id -> symbol
    client_chan,            \* queue of client_sender / symbol_receiver
    price_chan,             \* queue of price_sender / price_receiver
    nreq,                   \* subscribe requests handled so far
    resp,                   \* response of the last subscribe request
    last_query,             \* request and response of the last handler, if a price query
    mgr_pc,                 \* position of databento_client_manager
    mgr_exit,               \* why databento_client_manager returned
    connections,            \* LiveClient connections built so far
    subscribed_instruments, \* local of databento_client_manager
    client_started,         \* local of databento_client_manager
    mgr_log,                \* history: one entry per batch the manager received
    routed,                 \* history: the trade records routed, in order
    relay_pc,               \* position of start_websocket_broadcaster
    sent,                   \* history: events written to the WebSocket, in order
    dropped                 \* history: events whose WebSocket write failed

vars == <<api_key, prices, subscribed_symbols, symbol_mapping, client_chan,
          price_chan, nreq, resp, last_query, mgr_pc, mgr_exit, connections,
          subscribed_instruments, client_started, mgr_log, routed,
          relay_pc, sent, dropped>>

(***************************************************************************)
(* Bounds                                                                  *)
(***************************************************************************)
MaxReqs == 2
MaxBatchLen == 2
MaxTrades == 2
MaxRelayed == 3
MaxQueryLen == 3
CStrLen == 2

(***************************************************************************)
(* Strings                                                                 *)
(***************************************************************************)
Range(s) == {s[i] : i \in 1..Len(s)}

Last(s) == s[Len(s)]

SeqsUpTo(S, n) == UNION {[1..k -> S] : k \in 0..n}

\* char::is_whitespace, on the model's alphabet
IsWhitespace(c) == c = " "

\* char::to_uppercase, on the model's alphabet
UpperChar(c) ==
    CASE c = "a" -> "A"
      [] c = "b" -> "B"
      [] c = "c" -> "C"
      [] OTHER -> c

RECURSIVE TrimStart(_)
TrimStart(s) ==
    IF s # <<>> /\ IsWhitespace(Head(s)) THEN TrimStart(Tail(s)) ELSE s

RECURSIVE TrimEnd(_)
TrimEnd(s) ==
    IF s # <<>> /\ IsWhitespace(Last(s))
    THEN TrimEnd(SubSeq(s, 1, Len(s) - 1))
    ELSE s

\* str::trim
Trim(s) == TrimEnd(TrimStart(s))

\* str::to_uppercase
ToUppercase(s) == [i \in 1..Len(s) |-> UpperChar(s[i])]

\* fn norm_symbol(s: &str) -> String { s.trim().to_uppercase() }
norm_symbol(s) == ToUppercase(Trim(s))

\* str::split(','): the pieces between the commas, empty pieces included
RECURSIVE SplitFrom(_, _)
SplitFrom(s, cur) ==
    IF s = <<>> THEN <<cur>>
    ELSE IF Head(s) = "," THEN <<cur>> \o SplitFrom(Tail(s), <<>>)
    ELSE SplitFrom(Tail(s), Append(cur, Head(s)))

SplitComma(s) == SplitFrom(s, <<>>)

Digit(n) ==
    CASE n = 0 -> "0" [] n = 1 -> "1" [] n = 2 -> "2" [] n = 3 -> "3"
      [] n = 4 -> "4" [] n = 5 -> "5" [] n = 6 -> "6" [] n = 7 -> "7"
      [] n = 8 -> "8" [] n = 9 -> "9"

RECURSIVE Decimal(_)
Decimal(n) ==
    IF n < 10 THEN <<Digit(n)>> ELSE Append(Decimal(n \div 10), Digit(n % 10))

\* format!("INST:{}", inst)
InstKey(inst) == <<"I", "N", "S", "T", ":">> \o Decimal(inst)

(***************************************************************************)
(* Input sets                                                              *)
(***************************************************************************)
\* spellings a client may send in a subscribe or ingest_one body
Spellings == {<<"a">>, <<"A">>, <<" ", "b">>}

\* bodies of POST /subscribe
Bodies == SeqsUpTo(Spellings, MaxBatchLen)

\* instrument ids, raw symbols, prices and event timestamps the feed delivers
Instruments == {1, 2}
UpSymbols == {<<"A">>, <<"B">>}
\* (price, ts_event) of the trades: the dearer trade carries the older stamp
Ticks == {[price |-> 1, ts |-> 2], [price |-> 2, ts |-> 1]}

\* the test price POST /ingest_one writes under Spec
IngestSpellings == {<<"a">>}
IngestPrices == {9}
IngestTs == {9}

\* the feed under Spec
SubInstruments == {1}
SubTicks == {[price |-> 1, ts |-> 2]}

\* the requests that start the feed under SpecFeed
FeedBodies == {<< <<"a">> >>}

\* the request and the instrument that feed the broadcaster under SpecRelay
RelayBodies == {<< <<"a">> >>}
RelayInstruments == {1}

\* the requests under FairSpec
FairBodies == {<< <<"a">> >>, << <<" ", "b">> >>}

\* what POST /ingest_one writes and GET /api/live/prices asks under SpecCache
CacheSpellings == {<<"a">>, <<"A">>, <<" ", "b">>, <<"B">>}
CachePrices == {1, 2}
QueryChars == {"a", "A", "B", ","}
Queries == SeqsUpTo(QueryChars, MaxQueryLen)

(***************************************************************************)
(* Price Cache                                                             *)
(***************************************************************************)
\* struct LastPrice { price, ts_event_ns }
LastPrice(price, ts) == [price |-> price, ts_event_ns |-> ts]

\* HashMap::insert
Insert(map, key, val) ==
    [k \in DOMAIN map \cup {key} |-> IF k = key THEN val ELSE map[k]]

EmptyMap == [k \in {} |-> 0]


(***************************************************************************)
(* Control surface                                                         *)
(***************************************************************************)
NoQuery == [kind |-> "none"]

NoResp == [status |-> 0, msg |-> "none", requested |-> 0, subscribed |-> 0]

Response(status, msg) ==
    [status |-> status, msg |-> msg, requested |-> 0, subscribed |-> 0]

\* Mutant of GetMany: a requested key the cache lacks is answered with an
\* empty record instead of being left out
RECURSIVE GetMany_Defaults(_, _, _)
GetMany_Defaults(map, symbols, result) ==
    IF symbols = <<>> THEN result
    ELSE LET symbol == Head(symbols)
         IN  GetMany_Defaults(map, Tail(symbols),
                 Insert(result, symbol,
                        IF symbol \in DOMAIN map THEN map[symbol]
                        ELSE [price |-> "None", ts_event_ns |-> "None"]))

\* get_prices: the loop over the requested symbols
RECURSIVE GetMany(_, _, _)
GetMany(map, symbols, result) ==
    IF symbols = <<>> THEN result
    ELSE LET symbol == Head(symbols)
         IN  GetMany(map, Tail(symbols),
                     IF symbol \in DOMAIN map
                     THEN Insert(result, symbol, map[symbol])
                     ELSE result)

\* GET /api/live/prices?symbols=...
get_prices(query) ==
    /\ last_query' = [kind |-> "prices", symbols |-> query,
                      result |-> GetMany(prices, SplitComma(query), EmptyMap)]
    /\ UNCHANGED <<api_key, prices, subscribed_symbols, symbol_mapping,
                   client_chan, price_chan, nreq, resp, mgr_pc, mgr_exit,
                   connections, subscribed_instruments, client_started,
                   mgr_log, routed, relay_pc, sent, dropped>>

\* GET /api/live/all
get_all_prices ==
    /\ last_query' = [kind |-> "all", result |-> prices]
    /\ UNCHANGED <<api_key, prices, subscribed_symbols, symbol_mapping,
                   client_chan, price_chan, nreq, resp, mgr_pc, mgr_exit,
                   connections, subscribed_instruments, client_started,
                   mgr_log, routed, relay_pc, sent, dropped>>

\* POST /ingest_one; ts is body.ts_event_ns or, without one, current_time_ns()
ingest_one(symbol, price, ts) ==
    /\ prices' = Insert(prices, norm_symbol(symbol), LastPrice(price, ts))
    /\ last_query' = NoQuery
    /\ UNCHANGED <<api_key, subscribed_symbols, symbol_mapping, client_chan,
                   price_chan, nreq, resp, mgr_pc, mgr_exit, connections,
                   subscribed_instruments, client_started, mgr_log, routed, relay_pc, sent, dropped>>

\* subscribe: "Filter new symbols we haven't subscribed to yet"
RECURSIVE FilterRequested(_, _, _)
FilterRequested(symbols, has_active_prices, subscribed) ==
    IF symbols = <<>> THEN <<>>
    ELSE LET norm == norm_symbol(Head(symbols))
             rest == FilterRequested(Tail(symbols), has_active_prices, subscribed)
         IN  IF ~has_active_prices \/ norm \notin subscribed
             THEN <<norm>> \o rest
             ELSE rest

\* UnboundedSender::send fails once the receiver is dropped, which happens
\* when databento_client_manager returns
ReceiverOpen == mgr_pc # "stopped"

\* Mutant of start_live_subscription: each request builds a LiveClient of
\* its own before handing its symbols over
start_live_subscription_Connects(symbols) ==
    IF symbols = <<>>
    THEN [ok |-> TRUE, value |-> <<>>, chan |-> client_chan,
          subscribed |-> subscribed_symbols, connections |-> connections]
    ELSE IF ~ReceiverOpen
    THEN [ok |-> FALSE, value |-> <<>>, chan |-> client_chan,
          subscribed |-> subscribed_symbols, connections |-> connections]
    ELSE [ok |-> TRUE, value |-> symbols, chan |-> Append(client_chan, symbols),
          subscribed |-> subscribed_symbols \cup Range(symbols),
          connections |-> connections + 1]

\* Mutant of start_live_subscription: the symbols are inserted into
\* subscribed_symbols before the send, so also when the send fails
start_live_subscription_InsertsFirst(symbols) ==
    IF symbols = <<>>
    THEN [ok |-> TRUE, value |-> <<>>, chan |-> client_chan,
          subscribed |-> subscribed_symbols, connections |-> connections]
    ELSE IF ~ReceiverOpen
    THEN [ok |-> FALSE, value |-> <<>>, chan |-> client_chan,
          subscribed |-> subscribed_symbols \cup Range(symbols),
          connections |-> connections]
    ELSE [ok |-> TRUE, value |-> symbols, chan |-> Append(client_chan, symbols),
          subscribed |-> subscribed_symbols \cup Range(symbols),
          connections |-> connections]

\* start_live_subscription: the result and the shared state it leaves
start_live_subscription(symbols) ==
    IF symbols = <<>>
    THEN [ok |-> TRUE, value |-> <<>>, chan |-> client_chan,
          subscribed |-> subscribed_symbols, connections |-> connections]
    ELSE IF ~ReceiverOpen
    THEN [ok |-> FALSE, value |-> <<>>, chan |-> client_chan,
          subscribed |-> subscribed_symbols, connections |-> connections]
    ELSE [ok |-> TRUE, value |-> symbols, chan |-> Append(client_chan, symbols),
          subscribed |-> subscribed_symbols \cup Range(symbols),
          connections |-> connections]

\* Mutant of SubscribeOutcome: the check of DATABENTO_API_KEY is missing
SubscribeOutcome_NoKeyCheck(body) ==
    LET has_active_prices == DOMAIN prices # {}
        new_symbols == FilterRequested(body, has_active_prices,
                                       subscribed_symbols)
    IN  IF new_symbols = <<>>
        THEN [resp |-> Response(200, "All symbols already subscribed"),
              chan |-> client_chan, subscribed |-> subscribed_symbols,
              connections |-> connections]
        ELSE LET r == start_live_subscription(new_symbols)
             IN  IF r.ok
                 THEN [resp |-> [status |-> 200, msg |-> "ok",
                                 requested |-> Len(body),
                                 subscribed |-> Len(r.value)],
                       chan |-> r.chan,
                       subscribed |-> r.subscribed \cup Range(r.value),
                       connections |-> r.connections]
                 ELSE [resp |-> Response(500, "Failed to subscribe"),
                       chan |-> r.chan, subscribed |-> r.subscribed,
                       connections |-> r.connections]

\* Mutant of SubscribeOutcome: the early return for an empty new_symbols is
\* missing, so the handler goes on to start_live_subscription
SubscribeOutcome_NoEarlyReturn(body) ==
    IF ~api_key
    THEN [resp |-> Response(500, "DATABENTO_API_KEY not set"),
          chan |-> client_chan, subscribed |-> subscribed_symbols,
          connections |-> connections]
    ELSE LET has_active_prices == DOMAIN prices # {}
             new_symbols == FilterRequested(body, has_active_prices,
                                            subscribed_symbols)
             r == start_live_subscription(new_symbols)
         IN  IF r.ok
             THEN [resp |-> [status |-> 200, msg |-> "ok",
                             requested |-> Len(body),
                             subscribed |-> Len(r.value)],
                   chan |-> r.chan,
                   subscribed |-> r.subscribed \cup Range(r.value),
                   connections |-> r.connections]
             ELSE [resp |-> Response(500, "Failed to subscribe"),
                   chan |-> r.chan, subscribed |-> r.subscribed,
                   connections |-> r.connections]

\* subscribe: the response and the shared state the handler leaves.  The
\* handler's tail (a 500 ms sleep and a read of the cache) only computes the
\* response's "valid" count and is left out of the response record.
SubscribeOutcome(body) ==
    IF ~api_key
    THEN [resp |-> Response(500, "DATABENTO_API_KEY not set"),
          chan |-> client_chan, subscribed |-> subscribed_symbols,
          connections |-> connections]
    ELSE LET has_active_prices == DOMAIN prices # {}
             new_symbols == FilterRequested(body, has_active_prices,
                                            subscribed_symbols)
         IN  IF new_symbols = <<>>
             THEN [resp |-> Response(200, "All symbols already subscribed"),
                   chan |-> client_chan, subscribed |-> subscribed_symbols,
                   connections |-> connections]
             ELSE LET r == start_live_subscription(new_symbols)
                  IN  IF r.ok
                      THEN [resp |-> [status |-> 200, msg |-> "ok",
                                      requested |-> Len(body),
                                      subscribed |-> Len(r.value)],
                            chan |-> r.chan,
                            subscribed |-> r.subscribed \cup Range(r.value),
                            connections |-> r.connections]
                      ELSE [resp |-> Response(500, "Failed to subscribe"),
                            chan |-> r.chan, subscribed |-> r.subscribed,
                            connections |-> r.connections]

\* POST /subscribe
subscribe(body) ==
    /\ nreq < MaxReqs
    /\ nreq' = nreq + 1
    /\ LET o == SubscribeOutcome(body)
       IN  /\ resp' = o.resp
           /\ client_chan' = o.chan
           /\ subscribed_symbols' = o.subscribed
           /\ connections' = o.connections
    /\ last_query' = NoQuery
    /\ UNCHANGED <<api_key, prices, symbol_mapping, price_chan, mgr_pc,
                   mgr_exit, subscribed_instruments, client_started, mgr_log,
                   routed, relay_pc, sent, dropped>>

(***************************************************************************)
(* databento_client_manager                                                *)
(***************************************************************************)
\* Mutant of FilterNew: the membership test is missing, so every symbol of
\* the batch counts as new
FilterNew_All(symbols, subscribed) ==
    [new |-> symbols, subscribed |-> subscribed \cup Range(symbols)]

\* "Filter to new symbols only": the new symbols, in order, and the set
\* with them inserted
RECURSIVE FilterNew(_, _)
FilterNew(symbols, subscribed) ==
    IF symbols = <<>> THEN [new |-> <<>>, subscribed |-> subscribed]
    ELSE LET sym == Head(symbols)
         IN  IF sym \notin subscribed
             THEN LET r == FilterNew(Tail(symbols), subscribed \cup {sym})
                  IN  [new |-> <<sym>> \o r.new, subscribed |-> r.subscribed]
             ELSE FilterNew(Tail(symbols), subscribed)

\* "Remove symbols from subscribed set since start / subscription failed"
RemoveAll(subscribed, new_symbols) == subscribed \ Range(new_symbols)

LogEntry(symbols, new_symbols, sub, start) ==
    [batch |-> Range(symbols), new |-> Range(new_symbols),
     sub |-> sub, start |-> start]

\* Mutant of ProcessBatch: a failed client.start leaves the new symbols in
\* subscribed_instruments
ProcessBatch_NoStartRollback(symbols, sub_ok, start_ok) ==
    LET f == FilterNew(symbols, subscribed_instruments)
    IN  IF f.new = <<>>
        THEN [subscribed |-> f.subscribed, started |-> client_started,
              entry |-> LogEntry(symbols, f.new, "none", "none")]
        ELSE IF ~sub_ok
        THEN [subscribed |-> RemoveAll(f.subscribed, f.new),
              started |-> client_started,
              entry |-> LogEntry(symbols, f.new, "fail", "none")]
        ELSE IF client_started
        THEN [subscribed |-> f.subscribed, started |-> client_started,
              entry |-> LogEntry(symbols, f.new, "ok", "none")]
        ELSE IF start_ok
        THEN [subscribed |-> f.subscribed, started |-> TRUE,
              entry |-> LogEntry(symbols, f.new, "ok", "ok")]
        ELSE [subscribed |-> f.subscribed,
              started |-> client_started,
              entry |-> LogEntry(symbols, f.new, "ok", "fail")]

\* Mutant of ProcessBatch: after a successful client.start the new symbols
\* are taken out of subscribed_instruments again
ProcessBatch_ForgetsOnStart(symbols, sub_ok, start_ok) ==
    LET f == FilterNew(symbols, subscribed_instruments)
    IN  IF f.new = <<>>
        THEN [subscribed |-> f.subscribed, started |-> client_started,
              entry |-> LogEntry(symbols, f.new, "none", "none")]
        ELSE IF ~sub_ok
        THEN [subscribed |-> RemoveAll(f.subscribed, f.new),
              started |-> client_started,
              entry |-> LogEntry(symbols, f.new, "fail", "none")]
        ELSE IF client_started
        THEN [subscribed |-> f.subscribed, started |-> client_started,
              entry |-> LogEntry(symbols, f.new, "ok", "none")]
        ELSE IF start_ok
        THEN [subscribed |-> RemoveAll(f.subscribed, f.new), started |-> TRUE,
              entry |-> LogEntry(symbols, f.new, "ok", "ok")]
        ELSE [subscribed |-> RemoveAll(f.subscribed, f.new),
              started |-> client_started,
              entry |-> LogEntry(symbols, f.new, "ok", "fail")]

\* Mutant of ProcessBatch: a failed client.subscribe leaves the new symbols
\* in subscribed_instruments
ProcessBatch_NoSubscribeRollback(symbols, sub_ok, start_ok) ==
    LET f == FilterNew(symbols, subscribed_instruments)
    IN  IF f.new = <<>>
        THEN [subscribed |-> f.subscribed, started |-> client_started,
              entry |-> LogEntry(symbols, f.new, "none", "none")]
        ELSE IF ~sub_ok
        THEN [subscribed |-> f.subscribed,
              started |-> client_started,
              entry |-> LogEntry(symbols, f.new, "fail", "none")]
        ELSE IF client_started
        THEN [subscribed |-> f.subscribed, started |-> client_started,
              entry |-> LogEntry(symbols, f.new, "ok", "none")]
        ELSE IF start_ok
        THEN [subscribed |-> f.subscribed, started |-> TRUE,
              entry |-> LogEntry(symbols, f.new, "ok", "ok")]
        ELSE [subscribed |-> RemoveAll(f.subscribed, f.new),
              started |-> client_started,
              entry |-> LogEntry(symbols, f.new, "ok", "fail")]

\* The select arm for a received batch, given the results of
\* client.subscribe (sub_ok) and client.start (start_ok): the locals it
\* leaves and the upstream calls it made
ProcessBatch(symbols, sub_ok, start_ok) ==
    LET f == FilterNew(symbols, subscribed_instruments)
    IN  IF f.new = <<>>
        THEN [subscribed |-> f.subscribed, started |-> client_started,
              entry |-> LogEntry(symbols, f.new, "none", "none")]
        ELSE IF ~sub_ok
        THEN [subscribed |-> RemoveAll(f.subscribed, f.new),
              started |-> client_started,
              entry |-> LogEntry(symbols, f.new, "fail", "none")]
        ELSE IF client_started
        THEN [subscribed |-> f.subscribed, started |-> client_started,
              entry |-> LogEntry(symbols, f.new, "ok", "none")]
        ELSE IF start_ok
        THEN [subscribed |-> f.subscribed, started |-> TRUE,
              entry |-> LogEntry(symbols, f.new, "ok", "ok")]
        ELSE [subscribed |-> RemoveAll(f.subscribed, f.new),
              started |-> client_started,
              entry |-> LogEntry(symbols, f.new, "ok", "fail")]

\* The function's start: the API key is read and the one LiveClient is built
ManagerStart(built) ==
    /\ mgr_pc = "start"
    /\ IF ~api_key
       THEN /\ mgr_pc' = "stopped" /\ mgr_exit' = "no_key"
            /\ UNCHANGED connections
       ELSE IF ~built
       THEN /\ mgr_pc' = "stopped" /\ mgr_exit' = "build_failed"
            /\ UNCHANGED connections
       ELSE /\ mgr_pc' = "loop" /\ mgr_exit' = "none"
            /\ connections' = connections + 1
    /\ UNCHANGED <<api_key, prices, subscribed_symbols, symbol_mapping,
                   client_chan, price_chan, nreq, resp, last_query,
                   subscribed_instruments, client_started, mgr_log, routed, relay_pc, sent, dropped>>

\* Mutant of HandleBatch: the select is biased towards the record arm, so
\* a batch is received only while no record can be read
HandleBatch_Biased(sub_ok, start_ok) ==
    /\ mgr_pc = "loop"
    /\ ~client_started
    /\ client_chan # <<>>
    /\ LET r == ProcessBatch(Head(client_chan), sub_ok, start_ok)
       IN  /\ subscribed_instruments' = r.subscribed
           /\ client_started' = r.started
           /\ mgr_log' = Append(mgr_log, r.entry)
    /\ client_chan' = Tail(client_chan)
    /\ UNCHANGED <<api_key, prices, subscribed_symbols, symbol_mapping,
                   price_chan, nreq, resp, last_query, mgr_pc, mgr_exit,
                   connections, routed, relay_pc, sent, dropped>>

\* select arm: symbol_receiver.recv() yields a batch
HandleBatch(sub_ok, start_ok) ==
    /\ mgr_pc = "loop"
    /\ client_chan # <<>>
    /\ LET r == ProcessBatch(Head(client_chan), sub_ok, start_ok)
       IN  /\ subscribed_instruments' = r.subscribed
           /\ client_started' = r.started
           /\ mgr_log' = Append(mgr_log, r.entry)
    /\ client_chan' = Tail(client_chan)
    /\ UNCHANGED <<api_key, prices, subscribed_symbols, symbol_mapping,
                   price_chan, nreq, resp, last_query, mgr_pc, mgr_exit,
                   connections, routed, relay_pc, sent, dropped>>

\* The zero byte of a C string
NUL == "NUL"

\* SymbolMappingMsg.stype_out_symbol: a fixed array, zero-padded
PadCStr(sym) == sym \o [i \in 1..(CStrLen - Len(sym)) |-> NUL]

RECURSIVE UpToNul(_)
UpToNul(buf) ==
    IF buf = <<>> \/ Head(buf) = NUL THEN <<>>
    ELSE <<Head(buf)>> \o UpToNul(Tail(buf))

\* CStr::from_ptr(..).to_string_lossy(): the bytes up to the first zero
\* byte; with no zero byte in the array the read runs on into the bytes
\* that follow it (beyond), whatever they are
CStrDecode(buf, beyond) ==
    IF NUL \in Range(buf) THEN UpToNul(buf) ELSE buf \o beyond

\* the arrays the feed delivers (well-formed: zero-terminated)
UpBuffers == {PadCStr(sym) : sym \in UpSymbols}
SubBuffers == {PadCStr(<<"A">>)}
BeyondBytes == {<<>>, <<"?">>}

\* an array whose symbol fills it, leaving no room for a zero byte
FullBuffer == [i \in 1..CStrLen |-> "A"]

\* the arrays of the mapping records under SpecMapping
MapBuffers == UpBuffers \cup {FullBuffer}

\* select arm: next_record() yields a SymbolMappingMsg
RecvMapping(inst, buf, beyond) ==
    /\ mgr_pc = "loop" /\ client_started
    /\ symbol_mapping' = Insert(symbol_mapping, inst, CStrDecode(buf, beyond))
    /\ UNCHANGED <<api_key, prices, subscribed_symbols, client_chan,
                   price_chan, nreq, resp, last_query, mgr_pc, mgr_exit,
                   connections, subscribed_instruments, client_started,
                   mgr_log, routed, relay_pc, sent, dropped>>

\* "Get the actual symbol from the mapping"
ResolveSymbol(mappings, inst) ==
    IF inst \in DOMAIN mappings THEN mappings[inst] ELSE InstKey(inst)

\* Mutant of StoreTrade: a record with an older ts_event than the one held
\* under the key is not written
StoreTrade_NewerOnly(map, symbol, inst, price, ts) ==
    IF symbol \in DOMAIN map /\ map[symbol].ts_event_ns > ts
    THEN map
    ELSE Insert(map, symbol, LastPrice(price, ts))

\* Mutant of StoreTrade: the record is written under INST:<id> as well
StoreTrade_BothKeys(map, symbol, inst, price, ts) ==
    Insert(Insert(map, symbol, LastPrice(price, ts)),
           InstKey(inst), LastPrice(price, ts))

\* "Store price data with actual symbol"
StoreTrade(map, symbol, inst, price, ts) ==
    Insert(map, symbol, LastPrice(price, ts))

\* struct PriceUpdate; id is the trade's position in the feed, a tag of the
\* model that is not part of the serialized message
PriceUpdate(symbol, price, ts, id) ==
    [symbol |-> symbol, price |-> price, timestamp |-> ts, id |-> id]

\* Mutant of RecvTrade: the select arm lacks its `if client_started`
\* precondition
RecvTrade_Unguarded(inst, price, ts) ==
    /\ mgr_pc = "loop"
    /\ LET symbol == ResolveSymbol(symbol_mapping, inst)
           id == Len(routed) + 1
       IN  /\ prices' = StoreTrade(prices, symbol, inst, price, ts)
           /\ price_chan' = Append(price_chan, PriceUpdate(symbol, price, ts, id))
           /\ routed' = Append(routed, [inst |-> inst, symbol |-> symbol,
                                        price |-> price, ts |-> ts])
    /\ UNCHANGED <<api_key, subscribed_symbols, symbol_mapping, client_chan,
                   nreq, resp, last_query, mgr_pc, mgr_exit, connections,
                   subscribed_instruments, client_started, mgr_log,
                   relay_pc, sent, dropped>>

\* Mutant of RecvTrade: an update for the symbol of the update last pushed
\* takes that update's place on the queue
RecvTrade_Coalesce(inst, price, ts) ==
    /\ mgr_pc = "loop" /\ client_started
    /\ LET symbol == ResolveSymbol(symbol_mapping, inst)
           id == Len(routed) + 1
           update == PriceUpdate(symbol, price, ts, id)
       IN  /\ prices' = StoreTrade(prices, symbol, inst, price, ts)
           /\ price_chan' =
                 IF price_chan # <<>> /\ Last(price_chan).symbol = symbol
                 THEN Append(SubSeq(price_chan, 1, Len(price_chan) - 1), update)
                 ELSE Append(price_chan, update)
           /\ routed' = Append(routed, [inst |-> inst, symbol |-> symbol,
                                        price |-> price, ts |-> ts])
    /\ UNCHANGED <<api_key, subscribed_symbols, symbol_mapping, client_chan,
                   nreq, resp, last_query, mgr_pc, mgr_exit, connections,
                   subscribed_instruments, client_started, mgr_log,
                   relay_pc, sent, dropped>>

\* select arm: next_record() yields a TradeMsg.  px is kept exact, as the
\* number of 1e-9 units the record carries.
RecvTrade(inst, price, ts) ==
    /\ mgr_pc = "loop" /\ client_started
    /\ LET symbol == ResolveSymbol(symbol_mapping, inst)
           id == Len(routed) + 1
       IN  /\ prices' = StoreTrade(prices, symbol, inst, price, ts)
           /\ price_chan' = Append(price_chan, PriceUpdate(symbol, price, ts, id))
           /\ routed' = Append(routed, [inst |-> inst, symbol |-> symbol,
                                        price |-> price, ts |-> ts])
    /\ UNCHANGED <<api_key, subscribed_symbols, symbol_mapping, client_chan,
                   nreq, resp, last_query, mgr_pc, mgr_exit, connections,
                   subscribed_instruments, client_started, mgr_log,
                   relay_pc, sent, dropped>>

\* select arm: next_record() yields a record of another kind
RecvOther ==
    /\ mgr_pc = "loop" /\ client_started
    /\ UNCHANGED vars

\* Mutant of RecvEof: the flag is cleared but the loop goes on
RecvEof_KeepsLooping ==
    /\ mgr_pc = "loop" /\ client_started
    /\ client_started' = FALSE
    /\ mgr_pc' = "loop" /\ mgr_exit' = "eof"
    /\ UNCHANGED <<api_key, prices, subscribed_symbols, symbol_mapping,
                   client_chan, price_chan, nreq, resp, last_query,
                   connections, subscribed_instruments, mgr_log, routed, relay_pc, sent, dropped>>

\* select arm: next_record() yields Ok(None)
RecvEof ==
    /\ mgr_pc = "loop" /\ client_started
    /\ client_started' = FALSE
    /\ mgr_pc' = "stopped" /\ mgr_exit' = "eof"
    /\ UNCHANGED <<api_key, prices, subscribed_symbols, symbol_mapping,
                   client_chan, price_chan, nreq, resp, last_query,
                   connections, subscribed_instruments, mgr_log, routed, relay_pc, sent, dropped>>

\* select arm: next_record() yields Err; the 5 s sleep begins
RecvError ==
    /\ mgr_pc = "loop" /\ client_started
    /\ client_started' = FALSE
    /\ mgr_pc' = "delay"
    /\ UNCHANGED <<api_key, prices, subscribed_symbols, symbol_mapping,
                   client_chan, price_chan, nreq, resp, last_query, mgr_exit,
                   connections, subscribed_instruments, mgr_log, routed, relay_pc, sent, dropped>>

\* Where the manager goes when the 5 s sleep after a read error ends
AfterErrorDelay == [pc |-> "stopped", exit |-> "read_error"]

\* the 5 s sleep ends: break
ManagerDelayDone ==
    /\ mgr_pc = "delay"
    /\ mgr_pc' = AfterErrorDelay.pc /\ mgr_exit' = AfterErrorDelay.exit
    /\ UNCHANGED <<api_key, prices, subscribed_symbols, symbol_mapping,
                   client_chan, price_chan, nreq, resp, last_query,
                   connections, subscribed_instruments, client_started,
                   mgr_log, routed, relay_pc, sent, dropped>>

(***************************************************************************)
(* start_websocket_broadcaster                                             *)
(***************************************************************************)
\* Mutant of RelayConnect: a failed connection attempt ends the task
RelayConnect_GivesUp(ok) ==
    /\ relay_pc = "connect"
    /\ relay_pc' = IF ok THEN "forward" ELSE "stopped"
    /\ UNCHANGED <<api_key, prices, subscribed_symbols, symbol_mapping,
                   client_chan, price_chan, nreq, resp, last_query, mgr_pc,
                   mgr_exit, connections, subscribed_instruments,
                   client_started, mgr_log, routed, sent, dropped>>

\* connect_async returns
RelayConnect(ok) ==
    /\ relay_pc = "connect"
    /\ relay_pc' = IF ok THEN "forward" ELSE "delay10"
    /\ UNCHANGED <<api_key, prices, subscribed_symbols, symbol_mapping,
                   client_chan, price_chan, nreq, resp, last_query, mgr_pc,
                   mgr_exit, connections, subscribed_instruments,
                   client_started, mgr_log, routed, sent, dropped>>

\* Mutant of ForwardOutcome: an update whose write failed goes back to the
\* end of the queue
ForwardOutcome_Requeue(queue, written, lost, ok) ==
    LET update == Head(queue)
    IN  IF ok
        THEN [queue |-> Tail(queue), sent |-> Append(written, update),
              dropped |-> lost, pc |-> "forward"]
        ELSE [queue |-> Append(Tail(queue), update), sent |-> written,
              dropped |-> Append(lost, update), pc |-> "delay5"]

\* Mutant of ForwardOutcome: an update whose write failed stays at the head
\* of the queue and is written again on the next connection
ForwardOutcome_Retry(queue, written, lost, ok) ==
    LET update == Head(queue)
    IN  IF ok
        THEN [queue |-> Tail(queue), sent |-> Append(written, update),
              dropped |-> lost, pc |-> "forward"]
        ELSE [queue |-> queue, sent |-> written,
              dropped |-> Append(lost, update), pc |-> "delay5"]

\* What the forwarding arm leaves of the queue, the sink and the session
\* for the dequeued update, given the result of ws_sender.send
ForwardOutcome(queue, written, lost, ok) ==
    LET update == Head(queue)
    IN  IF ok
        THEN [queue |-> Tail(queue), sent |-> Append(written, update),
              dropped |-> lost, pc |-> "forward"]
        ELSE [queue |-> Tail(queue), sent |-> written,
              dropped |-> Append(lost, update), pc |-> "delay5"]

\* select arm: price_receiver.recv() yields an update, which is written
RelayForward(ok) ==
    /\ relay_pc = "forward"
    /\ price_chan # <<>>
    /\ LET o == ForwardOutcome(price_chan, sent, dropped, ok)
       IN  /\ price_chan' = o.queue
           /\ sent' = o.sent
           /\ dropped' = o.dropped
           /\ relay_pc' = o.pc
    /\ UNCHANGED <<api_key, prices, subscribed_symbols, symbol_mapping,
                   client_chan, nreq, resp, last_query, mgr_pc, mgr_exit,
                   connections, subscribed_instruments, client_started,
                   mgr_log, routed>>

\* what ws_receiver.next() can yield
InboundKinds == {"close", "error", "end", "other"}

\* select arm: ws_receiver.next() returns
RelayInbound(msg) ==
    /\ relay_pc = "forward"
    /\ relay_pc' = IF msg = "other" THEN "forward" ELSE "delay5"
    /\ UNCHANGED <<api_key, prices, subscribed_symbols, symbol_mapping,
                   client_chan, price_chan, nreq, resp, last_query, mgr_pc,
                   mgr_exit, connections, subscribed_instruments,
                   client_started, mgr_log, routed, sent, dropped>>

\* Mutant of RelayDelayDone: the update at the head of the queue is taken
\* off while the broadcaster has no connection
RelayDelayDone_Drains ==
    /\ relay_pc \in {"delay5", "delay10"}
    /\ relay_pc' = "connect"
    /\ price_chan' = IF price_chan = <<>> THEN price_chan ELSE Tail(price_chan)
    /\ UNCHANGED <<api_key, prices, subscribed_symbols, symbol_mapping,
                   client_chan, nreq, resp, last_query, mgr_pc,
                   mgr_exit, connections, subscribed_instruments,
                   client_started, mgr_log, routed, sent, dropped>>

\* the 5 s or 10 s sleep ends and the outer loop starts over
RelayDelayDone ==
    /\ relay_pc \in {"delay5", "delay10"}
    /\ relay_pc' = "connect"
    /\ UNCHANGED <<api_key, prices, subscribed_symbols, symbol_mapping,
                   client_chan, price_chan, nreq, resp, last_query, mgr_pc,
                   mgr_exit, connections, subscribed_instruments,
                   client_started, mgr_log, routed, sent, dropped>>

(***************************************************************************)
(* The system: main() builds AppState and spawns the two tasks             *)
(***************************************************************************)
Init ==
    /\ api_key \in BOOLEAN
    /\ prices = EmptyMap
    /\ subscribed_symbols = {}
    /\ symbol_mapping = EmptyMap
    /\ client_chan = <<>>
    /\ price_chan = <<>>
    /\ nreq = 0
    /\ resp = NoResp
    /\ last_query = NoQuery
    /\ mgr_pc = "start"
    /\ mgr_exit = "none"
    /\ connections = 0
    /\ subscribed_instruments = {}
    /\ client_started = FALSE
    /\ mgr_log = <<>>
    /\ routed = <<>>
    /\ relay_pc = "connect"
    /\ sent = <<>>
    /\ dropped = <<>>

\* The subscription path: every request body, the manager, and a feed of
\* one instrument.  The broadcaster is left out of this relation: it reads
\* and writes only price_chan's head, sent, dropped and relay_pc, which no
\* action below reads.
Next ==
    \/ \E body \in Bodies : subscribe(body)
    \/ \E s \in IngestSpellings, p \in IngestPrices, t \in IngestTs :
          ingest_one(s, p, t)
    \/ \E built \in BOOLEAN : ManagerStart(built)
    \/ \E sub_ok \in BOOLEAN, start_ok \in BOOLEAN : HandleBatch(sub_ok, start_ok)
    \/ \E inst \in SubInstruments, buf \in SubBuffers, beyond \in BeyondBytes :
          RecvMapping(inst, buf, beyond)
    \/ \E inst \in SubInstruments, tick \in SubTicks :
          Len(routed) < MaxTrades /\ RecvTrade(inst, tick.price, tick.ts)
    \/ RecvOther
    \/ RecvEof
    \/ RecvError
    \/ ManagerDelayDone

Spec == Init /\ [][Next]_vars

\* The feed: every instrument, raw symbol and tick, behind the subscribe
\* requests that start it.  The broadcaster is left out as above.
NextFeed ==
    \/ \E body \in FeedBodies : subscribe(body)
    \/ \E s \in IngestSpellings, p \in IngestPrices, t \in IngestTs :
          ingest_one(s, p, t)
    \/ \E built \in BOOLEAN : ManagerStart(built)
    \/ \E sub_ok \in BOOLEAN, start_ok \in BOOLEAN : HandleBatch(sub_ok, start_ok)
    \/ \E inst \in Instruments, buf \in UpBuffers, beyond \in BeyondBytes :
          RecvMapping(inst, buf, beyond)
    \/ \E inst \in Instruments, tick \in Ticks :
          Len(routed) < MaxTrades /\ RecvTrade(inst, tick.price, tick.ts)
    \/ RecvOther
    \/ RecvEof
    \/ RecvError
    \/ ManagerDelayDone

SpecFeed == Init /\ [][NextFeed]_vars

\* The broadcaster with its producer: one subscribe request starts the
\* feed, whose trades the manager pushes onto price_chan.
NextRelay ==
    \/ \E body \in RelayBodies : subscribe(body)
    \/ \E built \in BOOLEAN : ManagerStart(built)
    \/ \E sub_ok \in BOOLEAN, start_ok \in BOOLEAN : HandleBatch(sub_ok, start_ok)
    \/ \E inst \in RelayInstruments, tick \in Ticks :
          Len(routed) < MaxRelayed /\ RecvTrade(inst, tick.price, tick.ts)
    \/ \E ok \in BOOLEAN : RelayConnect(ok)
    \/ \E ok \in BOOLEAN : RelayForward(ok)
    \/ \E msg \in InboundKinds : RelayInbound(msg)
    \/ RelayDelayDone

SpecRelay == Init /\ [][NextRelay]_vars

\* The Price Cache and its queries: any cache POST /ingest_one can build,
\* any query string over QueryChars.
NextCache ==
    \/ \E s \in CacheSpellings, p \in CachePrices : ingest_one(s, p, p)
    \/ \E query \in Queries : get_prices(query)
    \/ get_all_prices

SpecCache == Init /\ [][NextCache]_vars

\* The whole process: the control surface, the manager with a feed of one
\* instrument, and the broadcaster, all running side by side.
NextSystem ==
    \/ \E body \in RelayBodies : subscribe(body)
    \/ \E s \in IngestSpellings, p \in IngestPrices, t \in IngestTs :
          ingest_one(s, p, t)
    \/ \E built \in BOOLEAN : ManagerStart(built)
    \/ \E sub_ok \in BOOLEAN, start_ok \in BOOLEAN : HandleBatch(sub_ok, start_ok)
    \/ \E inst \in SubInstruments, tick \in SubTicks :
          Len(routed) < MaxTrades /\ RecvTrade(inst, tick.price, tick.ts)
    \/ RecvEof
    \/ RecvError
    \/ ManagerDelayDone
    \/ \E ok \in BOOLEAN : RelayConnect(ok)
    \/ \E ok \in BOOLEAN : RelayForward(ok)
    \/ \E msg \in InboundKinds : RelayInbound(msg)
    \/ RelayDelayDone

SpecSystem == Init /\ [][NextSystem]_vars

\* The manager under a fair scheduler: the spawned task runs, its sleep
\* ends, and tokio::select!, which polls its ready branches in random
\* order, does not pass over a ready symbol_receiver.recv() for ever.  The
\* feed is free to deliver mapping records without end, and free to end.
NextFair ==
    \/ \E body \in FairBodies : subscribe(body)
    \/ \E built \in BOOLEAN : ManagerStart(built)
    \/ \E sub_ok \in BOOLEAN, start_ok \in BOOLEAN : HandleBatch(sub_ok, start_ok)
    \/ \E inst \in SubInstruments, buf \in UpBuffers, beyond \in BeyondBytes :
          RecvMapping(inst, buf, beyond)
    \/ \E inst \in SubInstruments, tick \in SubTicks :
          Len(routed) < MaxTrades /\ RecvTrade(inst, tick.price, tick.ts)
    \/ RecvEof
    \/ RecvError
    \/ ManagerDelayDone

FairSpec ==
    /\ Init /\ [][NextFair]_vars
    /\ WF_vars(\E built \in BOOLEAN : ManagerStart(built))
    /\ WF_vars(\E sub_ok \in BOOLEAN, start_ok \in BOOLEAN :
                  HandleBatch(sub_ok, start_ok))
    /\ WF_vars(ManagerDelayDone)

\* The mapping table: mapping records of every instrument, with arrays that
\* are zero-terminated and one that is not, behind the request that starts
\* the feed.
NextMapping ==
    \/ \E body \in FeedBodies : subscribe(body)
    \/ \E s \in IngestSpellings, p \in IngestPrices, t \in IngestTs :
          ingest_one(s, p, t)
    \/ \E built \in BOOLEAN : ManagerStart(built)
    \/ \E sub_ok \in BOOLEAN, start_ok \in BOOLEAN : HandleBatch(sub_ok, start_ok)
    \/ \E inst \in Instruments, buf \in MapBuffers, beyond \in BeyondBytes :
          RecvMapping(inst, buf, beyond)
    \/ \E inst \in SubInstruments, tick \in SubTicks :
          Len(routed) < MaxTrades /\ RecvTrade(inst, tick.price, tick.ts)
    \/ RecvEof

SpecMapping == Init /\ [][NextMapping]_vars

\* The broadcaster under a fair scheduler: its sleeps end and connect_async
\* returns, with a connection or with an error.  Nothing is assumed of the
\* sink: it may refuse every connection and fail every write.
FairSpecRelay ==
    /\ Init /\ [][NextRelay]_vars
    /\ WF_vars(RelayDelayDone)
    /\ WF_vars(\E ok \in BOOLEAN : RelayConnect(ok))

(***************************************************************************)
(* Derived histories                                                       *)
(***************************************************************************)
\* the updates the manager has pushed onto price_chan, in order
Pushed ==
    [i \in 1..Len(routed) |->
        PriceUpdate(routed[i].symbol, routed[i].price, routed[i].ts, i)]

Ids(events) == {events[i].id : i \in 1..Len(events)}

\* the upstream subscribe calls so far that named sym
SubscribeCalls(log, sym) ==
    Cardinality({i \in 1..Len(log) : log[i].sub # "none" /\ sym \in log[i].new})

\* the manager has just handled a batch
BatchHandled == Len(mgr_log') = Len(mgr_log) + 1

\* the manager has just routed a trade
TradeRouted == Len(routed') = Len(routed) + 1

\* sym's latest upstream subscribe call failed
LastSubscribeFailed(sym) ==
    \E i \in 1..Len(mgr_log) :
        /\ sym \in mgr_log[i].new /\ mgr_log[i].sub = "fail"
        /\ \A j \in (i + 1)..Len(mgr_log) : sym \notin mgr_log[j].new

(***************************************************************************)
(* C1: at most one upstream live connection is ever created, whatever      *)
(* subscribe requests arrive; a subscribe request (the step that counts in *)
(* nreq) leaves the number of connections as it is and at most appends one *)
(* batch to the control channel.                                           *)
(***************************************************************************)
C1_SingleConnection ==
    /\ [](connections <= 1)
    /\ [][nreq' # nreq =>
            /\ connections' = connections
            /\ \/ client_chan' = client_chan
               \/ /\ Len(client_chan') = Len(client_chan) + 1
                  /\ SubSeq(client_chan', 1, Len(client_chan)) = client_chan]_vars

\* two subscribe requests were made and both batches reached the one client
C1_Witness ==
    connections = 1 /\ nreq = MaxReqs /\ Len(mgr_log) >= 2

(***************************************************************************)
(* C2: a batch whose symbols are all in subscribed_instruments issues no   *)
(* upstream subscribe or start call and leaves subscribed_instruments and  *)
(* client_started as they are; and once a symbol is in                     *)
(* subscribed_instruments no later batch adds an upstream subscribe call   *)
(* that names it.                                                          *)
(***************************************************************************)
C2_Idempotent ==
    [][BatchHandled =>
        /\ Range(Head(client_chan)) \subseteq subscribed_instruments =>
             /\ Last(mgr_log').sub = "none"
             /\ Last(mgr_log').start = "none"
             /\ subscribed_instruments' = subscribed_instruments
             /\ client_started' = client_started
        /\ \A sym \in subscribed_instruments :
             SubscribeCalls(mgr_log', sym) = SubscribeCalls(mgr_log, sym)]_vars

\* the same symbols were sent twice: subscribed the first time, a no-op the
\* second
C2_Witness ==
    \E i, j \in 1..Len(mgr_log) :
        /\ i < j
        /\ mgr_log[i].sub = "ok" /\ mgr_log[i].start = "ok"
        /\ mgr_log[j].batch = mgr_log[i].batch
        /\ mgr_log[j].sub = "none"
        /\ mgr_log[j].batch \subseteq subscribed_instruments

(***************************************************************************)
(* C3: after the upstream subscribe call failed for a batch, a later       *)
(* subscribe request naming one of its symbols is treated as new: the      *)
(* handler enqueues it on the control channel and the manager issues an    *)
(* upstream subscribe call for it.                                         *)
(***************************************************************************)
C3_RollbackRetry ==
    [][/\ \A body \in Bodies : \A i \in 1..Len(body) :
            (/\ subscribe(body)
             /\ mgr_pc = "loop"
             /\ LastSubscribeFailed(norm_symbol(body[i]))
             /\ \A k \in 1..Len(client_chan) :
                    norm_symbol(body[i]) \notin Range(client_chan[k]))
            => /\ Len(client_chan') = Len(client_chan) + 1
               /\ norm_symbol(body[i]) \in Range(Last(client_chan'))
       /\ BatchHandled =>
            \A sym \in Range(Head(client_chan)) :
                LastSubscribeFailed(sym) =>
                    /\ sym \in Last(mgr_log').new
                    /\ Last(mgr_log').sub # "none"]_vars

(***************************************************************************)
(* C4: the updates written to the WebSocket are, in order, a subsequence   *)
(* of the updates pushed onto price_chan: each written update is the       *)
(* pushed update of its position in the feed, and those positions          *)
(* increase along the written sequence.                                    *)
(***************************************************************************)
C4_RelayOrder ==
    /\ \A k \in 1..Len(sent) :
          /\ sent[k].id \in 1..Len(routed)
          /\ sent[k] = Pushed[sent[k].id]
    /\ \A k, l \in 1..Len(sent) : k < l => sent[k].id < sent[l].id

\* an update was lost to a failed write between two delivered updates
C4_Witness ==
    \E k \in 1..(Len(sent) - 1) : \E d \in Ids(dropped) :
        sent[k].id < d /\ d < sent[k + 1].id

(***************************************************************************)
(* C5: every update is dequeued at most once and written at most once: no  *)
(* update appears twice among the written ones or twice among the ones     *)
(* whose write failed, none is both written and failed, and none of them   *)
(* is back on the queue.                                                   *)
(***************************************************************************)
C5_AtMostOnce ==
    /\ Cardinality(Ids(sent)) = Len(sent)
    /\ Cardinality(Ids(dropped)) = Len(dropped)
    /\ Ids(sent) \cap Ids(dropped) = {}
    /\ (Ids(sent) \cup Ids(dropped)) \cap Ids(price_chan) = {}
    /\ Ids(sent) \cup Ids(dropped) \cup Ids(price_chan) = 1..Len(routed)

\* a write failed, the relay reconnected and delivered a later update
C5_Witness ==
    /\ relay_pc = "forward"
    /\ \E d \in Ids(dropped) : \E w \in Ids(sent) : d < w

(***************************************************************************)
(* C6: the manager does not stop for good on an upstream read error: it is *)
(* never in its returned state because of one.                             *)
(***************************************************************************)
C6_RecoversFromReadError ==
    ~(mgr_pc = "stopped" /\ mgr_exit = "read_error")

(***************************************************************************)
(* C7 as claimed: after a trade for instrument i is routed, the cache      *)
(* holds its record under INST:i and, when i is mapped, under the mapped   *)
(* symbol too.                                                             *)
(***************************************************************************)
C7_BothKeys ==
    [][TradeRouted =>
        LET t == Last(routed')
            rec == LastPrice(t.price, t.ts)
        IN  /\ InstKey(t.inst) \in DOMAIN prices'
            /\ prices'[InstKey(t.inst)] = rec
            /\ t.inst \in DOMAIN symbol_mapping =>
                 /\ symbol_mapping[t.inst] \in DOMAIN prices'
                 /\ prices'[symbol_mapping[t.inst]] = rec]_vars

(***************************************************************************)
(* C7 as amended: after a trade for instrument i is routed, the cache      *)
(* holds its record under one key, the mapped symbol when i is mapped and  *)
(* INST:i otherwise, and every other entry of the cache, INST:i of a       *)
(* mapped i included, is as it was.                                        *)
(***************************************************************************)
C7_OneKey ==
    [][TradeRouted =>
        LET t == Last(routed')
            rec == LastPrice(t.price, t.ts)
            key == IF t.inst \in DOMAIN symbol_mapping
                   THEN symbol_mapping[t.inst]
                   ELSE InstKey(t.inst)
        IN  /\ DOMAIN prices' = DOMAIN prices \cup {key}
            /\ prices'[key] = rec
            /\ \A k \in DOMAIN prices \ {key} : prices'[k] = prices[k]]_vars

\* a trade of a mapped instrument was routed while INST:i holds an earlier
\* trade's record
C7_Witness ==
    /\ routed # <<>>
    /\ LET t == Last(routed)
       IN  /\ t.symbol # InstKey(t.inst)
           /\ InstKey(t.inst) \in DOMAIN prices
           /\ prices[InstKey(t.inst)] # LastPrice(t.price, t.ts)
           /\ prices[t.symbol] = LastPrice(t.price, t.ts)

(***************************************************************************)
(* C8: a price query returns, for each requested spelling whose canonical  *)
(* form is a key of the cache, the record stored under that form.          *)
(***************************************************************************)
C8_QueryNormalizes ==
    last_query.kind = "prices" =>
        \A k \in Range(SplitComma(last_query.symbols)) :
            norm_symbol(k) \in DOMAIN prices =>
                /\ k \in DOMAIN last_query.result
                /\ last_query.result[k] = prices[norm_symbol(k)]

(***************************************************************************)
(* C9: the keys of a price query's result are the requested keys that are  *)
(* in the cache, each with its cached record, and the query leaves the     *)
(* cache as it is.                                                         *)
(***************************************************************************)
C9_QuerySubset ==
    /\ [](last_query.kind = "prices" =>
            /\ DOMAIN last_query.result =
                   Range(SplitComma(last_query.symbols)) \cap DOMAIN prices
            /\ \A k \in DOMAIN last_query.result :
                   last_query.result[k] = prices[k])
    /\ [][(last_query'.kind = "prices" /\ last_query' # last_query) =>
            prices' = prices]_vars

\* a query that found one of its keys, missed another, and left a cached
\* key unasked
C9_Witness ==
    /\ last_query.kind = "prices"
    /\ DOMAIN last_query.result # {}
    /\ Range(SplitComma(last_query.symbols)) \ DOMAIN prices # {}
    /\ DOMAIN prices \ Range(SplitComma(last_query.symbols)) # {}

\* the shared state a subscribe request could touch
Shared == <<prices, subscribed_symbols, symbol_mapping, client_chan, price_chan,
            subscribed_instruments, client_started, connections>>

(***************************************************************************)
(* C10 as claimed, taken with the API key set: a subscribe request with an *)
(* empty symbol list gets a client-error status, enqueues nothing and      *)
(* changes no shared state.                                                *)
(***************************************************************************)
C10_EmptyRejected ==
    [][(api_key /\ subscribe(<<>>)) =>
        /\ resp'.status \in 400..499
        /\ Shared' = Shared]_vars

(***************************************************************************)
(* C10 as amended: a subscribe request with an empty symbol list is not    *)
(* rejected as a client error: with the API key set it is answered 200     *)
(* "All symbols already subscribed", without it 500; it enqueues nothing   *)
(* and changes no shared state.                                            *)
(***************************************************************************)
C10_EmptyIsNoOp ==
    [][subscribe(<<>>) =>
        /\ resp' = IF api_key
                   THEN Response(200, "All symbols already subscribed")
                   ELSE Response(500, "DATABENTO_API_KEY not set")
        /\ Shared' = Shared]_vars

\* an empty list was answered "already subscribed" with nothing subscribed
C10_Witness ==
    /\ nreq > 0
    /\ resp = Response(200, "All symbols already subscribed")
    /\ subscribed_symbols = {}
    /\ client_chan = <<>>
    /\ mgr_log = <<>>

\* a step of start_websocket_broadcaster
RelayStep ==
    \/ \E ok \in BOOLEAN : RelayConnect(ok)
    \/ \E ok \in BOOLEAN : RelayForward(ok)
    \/ \E msg \in InboundKinds : RelayInbound(msg)
    \/ RelayDelayDone

(***************************************************************************)
(* C11: without DATABENTO_API_KEY a subscribe request is answered 500      *)
(* "DATABENTO_API_KEY not set" and changes nothing: no batch is enqueued,  *)
(* subscribed_symbols and the cache are as before, and neither task is     *)
(* moved by it.  The process goes on: the handlers can still be called and *)
(* the broadcaster always has a step to take.                              *)
(***************************************************************************)
C11_MissingKey ==
    /\ [](~api_key =>
            /\ ENABLED RelayStep
            /\ ENABLED get_all_prices
            /\ \A s \in IngestSpellings, p \in IngestPrices, t \in IngestTs :
                   ENABLED ingest_one(s, p, t)
            /\ nreq < MaxReqs => \A body \in RelayBodies : ENABLED subscribe(body))
    /\ [][(~api_key /\ nreq' # nreq) =>
            /\ resp' = Response(500, "DATABENTO_API_KEY not set")
            /\ Shared' = Shared
            /\ mgr_pc' = mgr_pc
            /\ relay_pc' = relay_pc]_vars

\* without the key: the manager has returned, two requests were refused one
\* after the other, the cache was written and the broadcaster is connected
C11_Witness ==
    /\ ~api_key
    /\ mgr_exit = "no_key"
    /\ nreq = MaxReqs
    /\ resp = Response(500, "DATABENTO_API_KEY not set")
    /\ DOMAIN prices # {}
    /\ relay_pc = "forward"
    /\ client_chan = <<>> /\ subscribed_symbols = {}

\* sym's latest upstream subscribe call was followed by a failed start
LastStartFailed(sym) ==
    \E i \in 1..Len(mgr_log) :
        /\ sym \in mgr_log[i].new /\ mgr_log[i].start = "fail"
        /\ \A j \in (i + 1)..Len(mgr_log) : sym \notin mgr_log[j].new

(***************************************************************************)
(* C12: client.start is called only in a batch whose client.subscribe      *)
(* succeeded while client_started was false, never while it is true; when  *)
(* the start fails client_started stays false and subscribed_instruments   *)
(* loses the batch's new symbols and nothing else; a later batch naming a  *)
(* symbol whose start failed counts it as new again.                       *)
(***************************************************************************)
C12_StartOnce ==
    [][BatchHandled =>
        LET e == Last(mgr_log')
        IN  /\ e.start # "none" => (e.sub = "ok" /\ ~client_started)
            /\ client_started => e.start = "none"
            /\ e.start = "fail" =>
                 /\ ~client_started'
                 /\ e.new = e.batch \ subscribed_instruments
                 /\ subscribed_instruments' =
                        (subscribed_instruments \cup e.batch) \ e.new
            /\ \A sym \in Range(Head(client_chan)) :
                 LastStartFailed(sym) => sym \in e.new /\ e.sub # "none"]_vars

\* a start failed, and a later batch subscribed a rolled-back symbol again
\* and started the stream
C12_Witness ==
    \E i, j \in 1..Len(mgr_log) :
        /\ i < j
        /\ mgr_log[i].start = "fail"
        /\ mgr_log[j].start = "ok"
        /\ mgr_log[i].new \cap mgr_log[j].new # {}
        /\ client_started

\* client.start has succeeded at some point
StartedOnce == \E i \in 1..Len(mgr_log) : mgr_log[i].start = "ok"

\* the records POST /ingest_one can write
IngestKeys == {norm_symbol(s) : s \in IngestSpellings}
IngestRecords == {LastPrice(p, t) : p \in IngestPrices, t \in IngestTs}

\* the manager's locals and outputs
ManagerState == <<mgr_pc, mgr_exit, subscribed_instruments, client_started,
                  mgr_log, routed, symbol_mapping>>

(***************************************************************************)
(* C13: the record arm of the manager's select runs only while             *)
(* client_started is true.  While it is false a step of the loop is the    *)
(* handling of a batch; and until client.start has succeeded once the      *)
(* manager has written no mapping, routed no trade, pushed no update, and  *)
(* the cache holds only what POST /ingest_one wrote.                       *)
(***************************************************************************)
C13_RecordsOnlyWhenStarted ==
    /\ [](~StartedOnce =>
            /\ symbol_mapping = EmptyMap
            /\ routed = <<>>
            /\ price_chan = <<>>
            /\ DOMAIN prices \subseteq IngestKeys
            /\ \A k \in DOMAIN prices : prices[k] \in IngestRecords)
    /\ [][/\ (\/ symbol_mapping' # symbol_mapping
              \/ routed' # routed
              \/ Len(price_chan') > Len(price_chan)
              \/ mgr_exit' = "eof" /\ mgr_exit # "eof"
              \/ mgr_pc' = "delay" /\ mgr_pc # "delay") => client_started
          /\ (mgr_pc = "loop" /\ ~client_started
                /\ ManagerState' # ManagerState) => BatchHandled]_vars

\* the loop is running with the flag clear after a batch whose start
\* failed, the cache has a test price, and nothing has come from the feed
C13_Witness ==
    /\ mgr_pc = "loop" /\ ~client_started
    /\ mgr_log # <<>> /\ Last(mgr_log).start = "fail"
    /\ DOMAIN prices # {}
    /\ routed = <<>> /\ symbol_mapping = EmptyMap

\* the batches sent on client_sender so far
Enqueued == Len(mgr_log) + Len(client_chan)

(***************************************************************************)
(* C14 as claimed: every batch sent on client_sender is eventually         *)
(* received and handled by the manager.                                    *)
(***************************************************************************)
C14_EveryBatchHandled ==
    \A n \in 1..MaxReqs : (Enqueued >= n) ~> (Len(mgr_log) >= n)

(***************************************************************************)
(* C14 as amended: every batch sent on client_sender is eventually         *)
(* received and handled by the manager, however many records the feed      *)
(* delivers, unless the manager returns first (the client could not be     *)
(* built, the feed ended or a read failed); a batch still queued then is   *)
(* never handled.                                                          *)
(***************************************************************************)
C14_HandledUnlessStopped ==
    /\ \A n \in 1..MaxReqs :
          (Enqueued >= n) ~> (Len(mgr_log) >= n \/ mgr_pc = "stopped")
    /\ [][mgr_pc = "stopped" => mgr_log' = mgr_log]_vars

\* two batches went through the loop while the feed delivered its mapping
\* and all its trades, and the loop is still running
C14_Witness ==
    /\ Len(mgr_log) = MaxReqs
    /\ client_chan = <<>>
    /\ mgr_pc = "loop" /\ client_started
    /\ Len(routed) = MaxTrades
    /\ symbol_mapping # EmptyMap

(***************************************************************************)
(* C15: with nothing taken off price_chan, the queue holds one update per  *)
(* trade record read, in the order the records were read.  The step that   *)
(* reads a trade appends exactly its update to the queue and leaves the    *)
(* trade's record in the cache under the update's symbol; no other step    *)
(* of the manager or the handlers touches the queue.                       *)
(***************************************************************************)
C15_OnePerTrade ==
    /\ [](price_chan = Pushed)
    /\ [][TradeRouted =>
            LET t == Last(routed')
            IN  /\ price_chan' = Append(price_chan,
                       PriceUpdate(t.symbol, t.price, t.ts, Len(routed')))
                /\ t.symbol \in DOMAIN prices'
                /\ prices'[t.symbol] = LastPrice(t.price, t.ts)]_vars
    /\ [][price_chan' # price_chan => TradeRouted]_vars

\* a burst: two trades of one symbol at different prices, both on the queue
\* in the order they came
C15_Witness ==
    /\ Len(price_chan) = 2
    /\ price_chan[1].symbol = price_chan[2].symbol
    /\ price_chan[1].price # price_chan[2].price
    /\ price_chan[1].id < price_chan[2].id

\* the trades routed under key k so far, by position
RoutedUnder(k) == {i \in 1..Len(routed) : routed[i].symbol = k}

\* the position of the latest of them
LatestUnder(k) == CHOOSE i \in RoutedUnder(k) : \A j \in RoutedUnder(k) : j <= i

(***************************************************************************)
(* C16: a trade of instrument i is routed under the symbol mapped to i at  *)
(* that moment, or under INST:i when i has no mapping, and its record      *)
(* replaces whatever the key held, whatever the two event timestamps.  So  *)
(* every key a trade was routed under holds the record of the latest trade *)
(* routed under it, unless POST /ingest_one has written the key since.     *)
(***************************************************************************)
C16_LastWriteWins ==
    /\ [](\A i \in 1..Len(routed) :
            LET k == routed[i].symbol
                l == routed[LatestUnder(k)]
            IN  /\ k \in DOMAIN prices
                /\ \/ prices[k] = LastPrice(l.price, l.ts)
                   \/ prices[k] \in IngestRecords)
    /\ [][TradeRouted =>
            LET t == Last(routed')
            IN  /\ t.symbol = IF t.inst \in DOMAIN symbol_mapping
                              THEN symbol_mapping[t.inst]
                              ELSE InstKey(t.inst)
                /\ prices'[t.symbol] = LastPrice(t.price, t.ts)]_vars

\* a key holds a trade whose event timestamp is older than that of a trade
\* routed under the same key before it
C16_Witness ==
    \E i, j \in 1..Len(routed) :
        /\ i < j
        /\ routed[i].symbol = routed[j].symbol
        /\ routed[i].ts > routed[j].ts
        /\ prices[routed[j].symbol] = LastPrice(routed[j].price, routed[j].ts)

\* the symbol a mapping record carries in its array: the bytes before the
\* first zero byte, or the whole array when it has none
RecordSymbol(buf) == UpToNul(buf)

(***************************************************************************)
(* C17: a mapping record for instrument i sets symbol_mapping[i] to the    *)
(* record's symbol, leaves the entries of the other instruments and the    *)
(* whole cache as they are, and no step removes an entry of                *)
(* symbol_mapping.                                                         *)
(***************************************************************************)
C17_MappingSetsSymbol ==
    /\ [][\A inst \in Instruments, buf \in MapBuffers, beyond \in BeyondBytes :
            RecvMapping(inst, buf, beyond) =>
                /\ inst \in DOMAIN symbol_mapping'
                /\ symbol_mapping'[inst] = RecordSymbol(buf)
                /\ DOMAIN symbol_mapping' = DOMAIN symbol_mapping \cup {inst}
                /\ \A other \in DOMAIN symbol_mapping \ {inst} :
                       symbol_mapping'[other] = symbol_mapping[other]
                /\ prices' = prices]_vars
    /\ [][DOMAIN symbol_mapping \subseteq DOMAIN symbol_mapping']_vars

(***************************************************************************)
(* C18: the broadcaster never gives up.  A failed connect leads to the     *)
(* 10 s sleep; a failed write, a close, an error or the end of the inbound *)
(* stream leads to the 5 s sleep; any other inbound message leaves the     *)
(* session as it is; each sleep leads to a new connect, and a connect      *)
(* always comes to a result, so from every disconnected state a new        *)
(* connection attempt follows.                                             *)
(***************************************************************************)
C18_RelayRetries ==
    /\ [](relay_pc \in {"connect", "forward", "delay5", "delay10"})
    /\ [][/\ relay_pc = "connect" => relay_pc' \in {"connect", "forward", "delay10"}
          /\ relay_pc = "forward" => relay_pc' \in {"forward", "delay5"}
          /\ relay_pc \in {"delay5", "delay10"} => relay_pc' \in {relay_pc, "connect"}
          /\ Len(dropped') > Len(dropped) => relay_pc' = "delay5"
          /\ Len(sent') > Len(sent) => relay_pc' = "forward"
          /\ \A msg \in InboundKinds :
                RelayInbound(msg) =>
                    relay_pc' = IF msg = "other" THEN "forward" ELSE "delay5"]_vars
    /\ (relay_pc \in {"delay5", "delay10"}) ~> (relay_pc = "connect")
    /\ (relay_pc = "connect") ~> (relay_pc \in {"forward", "delay10"})
    /\ []<>(relay_pc \in {"connect", "forward"})

\* two writes have failed, each on a connection of its own, and the
\* broadcaster is connected once more
C18_Witness ==
    /\ Len(dropped) >= 2
    /\ relay_pc = "forward"

\* prices' is prices with at most one record written by POST /ingest_one
IngestWrite ==
    \/ prices' = prices
    \/ \E k \in IngestKeys, rec \in IngestRecords : prices' = Insert(prices, k, rec)

(***************************************************************************)
(* C19: when next_record() yields Ok(None) the manager clears              *)
(* client_started and returns.  From then on it reads no record and        *)
(* handles no batch: its locals, the mapping table and the trade history   *)
(* stay as they are, nothing is taken off client_chan or pushed onto       *)
(* price_chan, and the cache changes only by POST /ingest_one.             *)
(***************************************************************************)
C19_EofTerminates ==
    /\ [](mgr_exit = "eof" => (mgr_pc = "stopped" /\ ~client_started))
    /\ [][(mgr_exit' = "eof" /\ mgr_exit # "eof") =>
            (client_started /\ mgr_pc = "loop")]_vars
    /\ [][mgr_exit = "eof" =>
            /\ ManagerState' = ManagerState
            /\ Len(client_chan') >= Len(client_chan)
            /\ price_chan' = price_chan
            /\ IngestWrite]_vars

\* the feed ended after a trade with a batch still queued, which stays
\* queued
C19_Witness ==
    /\ mgr_exit = "eof"
    /\ client_chan # <<>>
    /\ routed # <<>>
    /\ nreq = MaxReqs

(***************************************************************************)
(* C20: the sets of subscribed symbols and client_started are changed by   *)
(* steps of the manager only: a request handler sends a batch on           *)
(* client_sender and writes none of subscribed_symbols,                    *)
(* subscribed_instruments and client_started itself.                       *)
(***************************************************************************)
C20_OnlyManagerWrites ==
    /\ [][(\/ subscribed_instruments' # subscribed_instruments
           \/ client_started' # client_started
           \/ subscribed_symbols' # subscribed_symbols) =>
            (mgr_pc = "loop" /\ nreq' = nreq)]_vars
    /\ [][nreq' # nreq =>
            /\ subscribed_symbols' = subscribed_symbols
            /\ subscribed_instruments' = subscribed_instruments
            /\ client_started' = client_started]_vars

\* q is p with updates appended, or p itself
Extends(q, p) == Len(q) >= Len(p) /\ SubSeq(q, 1, Len(p)) = p

(***************************************************************************)
(* C21: an update leaves price_chan only in the forwarding loop of an      *)
(* established connection, and it is the update at the head.  While the    *)
(* broadcaster connects or sleeps the queue only grows at its end, so the  *)
(* updates pushed meanwhile wait in the order pushed, behind none that was *)
(* written or lost.  The updates that are neither written nor queued are   *)
(* those whose write failed, each taken off the queue on a connection that *)
(* the failure ended.                                                      *)
(***************************************************************************)
C21_QueuedWhileDisconnected ==
    /\ [](/\ \A k, l \in 1..Len(price_chan) :
                k < l => price_chan[k].id < price_chan[l].id
          /\ \A k \in 1..Len(price_chan) :
                /\ price_chan[k] = Pushed[price_chan[k].id]
                /\ \A d \in Ids(sent) \cup Ids(dropped) : d < price_chan[k].id
          /\ (1..Len(routed)) \ (Ids(sent) \cup Ids(price_chan)) = Ids(dropped))
    /\ [][/\ relay_pc # "forward" => Extends(price_chan', price_chan)
          /\ Len(price_chan') < Len(price_chan) =>
                /\ relay_pc = "forward"
                /\ price_chan' = Tail(price_chan)
                /\ \/ sent' = Append(sent, Head(price_chan)) /\ dropped' = dropped
                   \/ /\ dropped' = Append(dropped, Head(price_chan))
                      /\ sent' = sent
                      /\ relay_pc' = "delay5"
          /\ (sent' # sent \/ dropped' # dropped) =>
                Len(price_chan') < Len(price_chan)]_vars

\* after a delivered update and a failed write the broadcaster is
\* disconnected, and a later update waits on the queue
C21_Witness ==
    /\ relay_pc \in {"delay5", "delay10", "connect"}
    /\ sent # <<>> /\ dropped # <<>>
    /\ price_chan # <<>>

(***************************************************************************)
(* C22 as claimed: no symbol is named by two upstream subscribe calls that *)
(* succeeded.                                                              *)
(***************************************************************************)
C22_SubscribedOnce ==
    \A i, j \in 1..Len(mgr_log) :
        (i < j /\ mgr_log[i].sub = "ok" /\ mgr_log[j].sub = "ok") =>
            mgr_log[i].new \cap mgr_log[j].new = {}

(***************************************************************************)
(* C22 as amended: a symbol is named by a second successful upstream       *)
(* subscribe call only when every earlier successful call naming it was    *)
(* followed by a failed client.start, whose rollback took the symbol out   *)
(* of subscribed_instruments; a symbol subscribed while the stream was     *)
(* running, or in the batch that started it, is never subscribed again.    *)
(***************************************************************************)
C22_ResubscribedOnlyAfterFailedStart ==
    \A i, j \in 1..Len(mgr_log) :
        (/\ i < j
         /\ mgr_log[i].sub = "ok"
         /\ mgr_log[j].sub # "none"
         /\ mgr_log[i].new \cap mgr_log[j].new # {}) =>
            mgr_log[i].start = "fail"

\* the upstream accepted the same symbol twice, and both starts failed
C22_Witness ==
    /\ Len(mgr_log) >= 2
    /\ mgr_log[1].sub = "ok" /\ mgr_log[1].start = "fail"
    /\ mgr_log[2].sub = "ok" /\ mgr_log[2].start = "fail"
    /\ mgr_log[1].new \cap mgr_log[2].new # {}
    /\ subscribed_instruments = {}

\* the canonical form of each spelling a client may send
Canonical == [s \in Spellings |-> norm_symbol(s)]

\* body names a symbol the handler takes as new: one that is not in
\* subscribed_symbols, or any at all while the cache is empty
NamesNew(body) ==
    /\ body # <<>>
    /\ \/ DOMAIN prices = {}
       \/ \E i \in 1..Len(body) : Canonical[body[i]] \notin subscribed_symbols

(***************************************************************************)
(* C23 as claimed: once the manager has returned, every subscribe request  *)
(* is answered with an error status and adds nothing to                    *)
(* subscribed_symbols.                                                     *)
(***************************************************************************)
C23_ErrorAfterStop ==
    [][(nreq' # nreq /\ mgr_pc = "stopped") =>
        /\ resp'.status >= 400
        /\ subscribed_symbols' = subscribed_symbols]_vars

(***************************************************************************)
(* C23 as amended: once the manager has returned, no subscribe request     *)
(* adds to subscribed_symbols or to client_chan.  A request that names a   *)
(* symbol the handler takes as new is answered 500; a request that names   *)
(* none, the empty list included, is answered 200 "All symbols already     *)
(* subscribed" as before, or 500 without the API key.                      *)
(***************************************************************************)
C23_AfterStop ==
    [][(nreq' # nreq /\ mgr_pc = "stopped") =>
        /\ subscribed_symbols' = subscribed_symbols
        /\ client_chan' = client_chan
        /\ \A body \in Bodies :
              \/ resp' = IF ~api_key
                         THEN Response(500, "DATABENTO_API_KEY not set")
                         ELSE IF NamesNew(body)
                         THEN Response(500, "Failed to subscribe")
                         ELSE Response(200, "All symbols already subscribed")
              \/ ~subscribe(body)]_vars

\* the feed ended, and a request naming a symbol not yet subscribed was
\* refused and left subscribed_symbols without it
C23_Witness ==
    /\ mgr_pc = "stopped" /\ mgr_exit = "eof"
    /\ resp = Response(500, "Failed to subscribe")
    /\ subscribed_symbols # {}
    /\ \E s \in Spellings : norm_symbol(s) \notin subscribed_symbols

(***************************************************************************)
(* C24: whenever the manager is at the top of its loop, client_started is  *)
(* true exactly when subscribed_instruments is not empty, and every symbol *)
(* of subscribed_instruments was new in a batch whose upstream subscribe   *)
(* call succeeded.                                                         *)
(***************************************************************************)
C24_StartedIffSubscribed ==
    mgr_pc = "loop" =>
        /\ client_started <=> subscribed_instruments # {}
        /\ \A sym \in subscribed_instruments :
              \E i \in 1..Len(mgr_log) :
                  sym \in mgr_log[i].new /\ mgr_log[i].sub = "ok"

\* after a batch that was rolled back, a batch of two symbols was
\* subscribed and the stream started
C24_Witness ==
    /\ mgr_pc = "loop" /\ client_started
    /\ Len(mgr_log) = 2
    /\ mgr_log[1].sub = "fail"
    /\ Cardinality(subscribed_instruments) = 2

============================================================================
